---- MODULE Spec2Model ----
(***************************************************************************)
(* Model of src/app.js: a command-line sentiment client.  main() checks    *)
(* the token, runs validateToken(), analyses a fixed test sentence and     *)
(* then loops on readline.question(); analyzeSentiment() walks MODELS,     *)
(* calling testModel() per candidate with one delayed retry when the       *)
(* error text includes '503'.                                              *)
(*                                                                         *)
(* JavaScript strings that the code inspects (input lines, error texts,    *)
(* labels) are sequences of one-character strings.  JSON values are        *)
(* tagged records.  Every await of the code is a position of pc.           *)
(***************************************************************************)
EXTENDS Integers, Sequences, FiniteSets, TLC

VARIABLES TOKEN,        \* process.env.HUGGINGFACE_TOKEN, read at line 13
          pc,           \* where main() is suspended
          idx,          \* position in MODELS of the for-of loop (0: no loop)
          text,         \* argument of the running or most recent
                        \* analyzeSentiment
          inflight,     \* HTTP requests issued and not yet settled
          trace,        \* requests, responses and console lines since the
                        \* program started or since the last prompt
          whoamiCalls,  \* identity requests issued in this run
          isValidToken, \* value returned by validateToken (undefined before)
          outcome       \* how the most recent analyzeSentiment ended: "none"
                        \* before the first, "running", "success",
                        \* "exhausted", or "threw" when an error left it

vars == <<TOKEN, pc, idx, text, inflight, trace, whoamiCalls,
          isValidToken, outcome>>

----------------------------------------------------------------------------
(* Bounds of the model *)

\* longest generated input line (longer, hand-picked lines are in WordLines)
MaxLineLen == 1

----------------------------------------------------------------------------
(* Strings as character sequences *)

Upper == <<"A","B","C","D","E","F","G","H","I","J","K","L","M",
           "N","O","P","Q","R","S","T","U","V","W","X","Y","Z">>
Lower == <<"a","b","c","d","e","f","g","h","i","j","k","l","m",
           "n","o","p","q","r","s","t","u","v","w","x","y","z">>

\* String.prototype.toLowerCase on one character
LowerChar(c) ==
    IF \E i \in 1..Len(Upper) : Upper[i] = c
    THEN Lower[CHOOSE i \in 1..Len(Upper) : Upper[i] = c]
    ELSE c

toLowerCaseIdentity(s) == s
\* String.prototype.toLowerCase
toLowerCase(s) == [i \in 1..Len(s) |-> LowerChar(s[i])]

IsWhiteSpace(c) == c \in {" ", "\t"}

trimIdentity(s) == s
\* String.prototype.trim: drops leading and trailing white space
trim(s) ==
    LET keep == {i \in 1..Len(s) : ~IsWhiteSpace(s[i])}
    IN  IF keep = {} THEN <<>>
        ELSE LET lo == CHOOSE i \in keep : \A j \in keep : i <= j
                 hi == CHOOSE i \in keep : \A j \in keep : j <= i
             IN  SubSeq(s, lo, hi)

\* position of the first occurrence of pat in s, 0 when there is none
IndexOf(s, pat) ==
    LET hits == {i \in 1..(Len(s) - Len(pat) + 1) :
                    SubSeq(s, i, i + Len(pat) - 1) = pat}
    IN  IF hits = {} THEN 0
        ELSE CHOOSE i \in hits : \A j \in hits : i <= j

\* String.prototype.includes
includes(s, pat) == IndexOf(s, pat) # 0

\* String.prototype.replace with a string pattern: first occurrence only
replace(s, pat, by) ==
    LET i == IndexOf(s, pat)
    IN  IF i = 0 THEN s
        ELSE SubSeq(s, 1, i - 1) \o by \o SubSeq(s, i + Len(pat), Len(s))

DigitChar == <<"0","1","2","3","4","5","6","7","8","9">>

RECURSIVE Digits(_)
\* decimal text of a natural number, as template literals produce it
Digits(n) ==
    IF n < 10 THEN <<DigitChar[n + 1]>>
    ELSE Digits(n \div 10) \o <<DigitChar[(n % 10) + 1]>>

----------------------------------------------------------------------------
(* JSON values *)

Undefined == [t |-> "undefined"]
JNull     == [t |-> "null"]
JNum(n)   == [t |-> "num", v |-> n]
JStr(s)   == [t |-> "str", v |-> s]
JArr(s)   == [t |-> "arr", v |-> s]
\* an object is the sequence of its <<key, value>> members, in order
JObj(s)   == [t |-> "obj", v |-> s]

\* Array.isArray
isArray(x) == x.t = "arr"

\* property read obj.key on a JSON object; undefined when absent
GetField(x, key) ==
    IF x.t = "obj" /\ \E i \in 1..Len(x.v) : x.v[i][1] = key
    THEN x.v[CHOOSE i \in 1..Len(x.v) : x.v[i][1] = key][2]
    ELSE Undefined

RECURSIVE stringify(_)
RECURSIVE StringifyItems(_, _)
RECURSIVE StringifyMembers(_, _)
\* JSON.stringify without indentation (strings here need no escaping)
stringify(x) ==
    CASE x.t = "undefined" -> <<"u","n","d","e","f","i","n","e","d">>
      [] x.t = "null" -> <<"n","u","l","l">>
      [] x.t = "num"  -> Digits(x.v)
      [] x.t = "str"  -> <<"\"">> \o x.v \o <<"\"">>
      [] x.t = "arr"  -> <<"[">> \o StringifyItems(x.v, 1) \o <<"]">>
      [] x.t = "obj"  -> <<"{">> \o StringifyMembers(x.v, 1) \o <<"}">>
StringifyItems(s, i) ==
    IF i > Len(s) THEN <<>>
    ELSE (IF i > 1 THEN <<",">> ELSE <<>>) \o stringify(s[i])
         \o StringifyItems(s, i + 1)
StringifyMembers(s, i) ==
    IF i > Len(s) THEN <<>>
    ELSE (IF i > 1 THEN <<",">> ELSE <<>>)
         \o <<"\"">> \o s[i][1] \o <<"\"", ":">> \o stringify(s[i][2])
         \o StringifyMembers(s, i + 1)

JBool(b)  == [t |-> "bool", v |-> b]

FalsyOnlyUndefined(x) == x.t = "undefined"
\* JavaScript's !x for the values that occur here
Falsy(x) ==
    \/ x.t \in {"undefined", "null"}
    \/ x.t = "str" /\ x.v = <<>>
    \/ x.t = "bool" /\ ~x.v

----------------------------------------------------------------------------
(* Program constants and the environment's inputs *)

MODELS == << "cardiffnlp/twitter-roberta-base-sentiment-latest",
             "distilbert-base-uncased-finetuned-sst-2-english",
             "cardiffnlp/twitter-roberta-base-sentiment",
             "nlptown/bert-base-multilingual-uncased-sentiment" >>

S503     == <<"5","0","3">>
SQuit    == <<"q","u","i","t">>
SExit    == <<"e","x","i","t">>
SLabel   == <<"L","A","B","E","L","_">>
KLabel   == <<"l","a","b","e","l">>
KScore   == <<"s","c","o","r","e">>
KName    == <<"n","a","m","e">>
KError   == <<"e","r","r","o","r">>
TestSentence == <<"I"," ","l","o","v","e"," ","t","h","i","s","!">>

\* values of process.env.HUGGINGFACE_TOKEN: unset, empty, set
Tokens == {Undefined, JStr(<<>>), JStr(<<"h","f","_","x">>)}

\* outcomes of one axios request
Ok(data)            == [kind |-> "ok", status |-> 200, data |-> data]
HttpError(st, data) == [kind |-> "http", status |-> st, data |-> data]
NetError(msg)       == [kind |-> "net", message |-> msg]

Item(label, score) == JObj(<< <<KLabel, label>>, <<KScore, score>> >>)

\* scores are in units of 1/10000 (9870 is 0.987)
Payloads ==
    { JArr(<< JArr(<< Item(JStr(SLabel \o <<"P","O","S">>), JNum(9870)),
                     Item(JStr(<<"n","_","e","_","g">>), JNum(130)) >>) >>),
      JArr(<< JArr(<<>>) >>),
      JArr(<< Item(JStr(<<"P","O","S">>), JNum(9870)) >>),
      JArr(<<>>),
      JObj(<< << <<"u","n","e","x","p","e","c","t","e","d">>,
                 JStr(<<"s","h","a","p","e">>) >> >>),
      JStr(<<>>),
      JArr(<< JArr(<< JNum(1) >>) >>),
      JArr(<< JArr(<< JObj(<< <<KScore, JNum(5000)>> >>) >>) >>),
      JArr(<< JArr(<< Item(JNum(5), JNum(5000)) >>) >>),
      JArr(<< JArr(<< Item(JStr(<<"a">>), JNum(5000)), JNull >>) >>) }

ErrorBodies ==
    { JObj(<< <<KError, JStr(<<"l","o","a","d","i","n","g">>)>> >>),
      JObj(<< <<KError, JStr(<<"u","p","s","t","r","e","a","m"," ">> \o S503)>> >>) }

ErrorStatuses == {404, 503}

ErrorMessages ==
    { <<"t","i","m","e","o","u","t">>,
      <<"E","C","O","N","N","R","E","F","U","S","E","D"," ",":">> \o S503 \o <<"1">> }

InferResponses ==
    {Ok(p) : p \in Payloads}
    \cup {HttpError(st, b) : st \in ErrorStatuses, b \in ErrorBodies}
    \cup {NetError(m) : m \in ErrorMessages}

WhoamiResponses ==
    { Ok(JObj(<< <<KName, JStr(<<"u">>)>> >>)), Ok(JNull), Ok(JStr(<<>>)),
      HttpError(401, JObj(<< <<KError, JStr(<<"b","a","d">>)>> >>)),
      NetError(<<"t","i","m","e","o","u","t">>) }

RECURSIVE SeqsUpTo(_, _)
SeqsUpTo(S, n) ==
    IF n = 0 THEN {<<>>}
    ELSE LET shorter == SeqsUpTo(S, n - 1)
         IN  shorter \cup {Append(s, c) : s \in shorter, c \in S}

LineChars == {" ", "a"}

WordLines ==
    { SQuit, SExit,
      <<"Q","U","I","T">>, <<"E","x","i","t">>, <<"q","u","I","t">>,
      <<" ">> \o SQuit \o <<" ">>,
      SQuit \o <<" ","n","o","w">>,
      <<"\t">>, <<" ","\t"," ">> }

\* lines readline.question can return
Lines == SeqsUpTo(LineChars, MaxLineLen) \cup WordLines

----------------------------------------------------------------------------
(* Events of the trace *)

Req(kind, m, retry) == [ev |-> "request", kind |-> kind, m |-> m, retry |-> retry]
\* status is 0 when the request failed without a response; a 2xx response
\* carries response.data
Resp(resp) ==
    IF resp.kind = "ok"
    THEN [ev |-> "response", status |-> resp.status, data |-> resp.data]
    ELSE [ev |-> "response",
          status |-> IF resp.kind = "net" THEN 0 ELSE resp.status]
Log(tag, m) == [ev |-> "log", tag |-> tag, m |-> m]
LogText(tag, txt) == [ev |-> "log", tag |-> tag, m |-> 0, txt |-> txt]
\* readline.question writes the prompt and blocks
Prompt == [ev |-> "prompt"]
\* readline.question returned line
Read(line) == [ev |-> "read", line |-> line]

----------------------------------------------------------------------------
(* testModel, lines 16-41 *)

\* the result object built from the outcome of axios.post
testModel(modelName, resp) ==
    IF resp.kind = "ok"
    THEN [success |-> TRUE, data |-> resp.data, model |-> modelName]
    ELSE [success |-> FALSE,
          error |-> IF resp.kind = "http"
                    THEN Digits(resp.status) \o <<":", " ">> \o stringify(resp.data)
                    ELSE resp.message,
          model |-> modelName]

----------------------------------------------------------------------------
(* Rendering of a successful payload, lines 56-72 and 87-95 *)

\* (score * 100).toFixed(2) for a score given in units of 1/10000
Percent(score) ==
    IF score.t = "num"
    THEN Digits(score.v \div 100) \o <<".">>
         \o <<DigitChar[((score.v % 100) \div 10) + 1], DigitChar[(score.v % 10) + 1]>>
    ELSE IF score.t = "null" THEN <<"0", ".", "0", "0">>
    ELSE <<"N","a","N">>

\* item.label.replace('LABEL_', '').replace('_', ' ')
DisplayLabel(label) == replace(replace(label, SLabel, <<>>), <<"_">>, <<" ">>)

\* item.label.replace throws a TypeError unless item.label is a string
LabelThrows(item) == GetField(item, KLabel).t # "str"

RECURSIVE forEachItem(_, _)
\* data.forEach(item => ...): the lines printed, and whether an item threw
forEachItem(items, i) ==
    IF i > Len(items) THEN [lines |-> <<>>, throws |-> FALSE]
    ELSE IF LabelThrows(items[i]) THEN [lines |-> <<>>, throws |-> TRUE]
    ELSE LET rest == forEachItem(items, i + 1)
             line == [ev |-> "log", tag |-> "line", m |-> 0,
                      txt |-> DisplayLabel(GetField(items[i], KLabel).v),
                      pct |-> Percent(GetField(items[i], KScore))]
         IN  [lines |-> <<line>> \o rest.lines, throws |-> rest.throws]

\* lines 56-72: rendering after a successful first call
render(data) ==
    IF isArray(data) /\ Len(data.v) > 0
    THEN IF isArray(data.v[1])
         THEN forEachItem(data.v[1].v, 1)
         ELSE [lines |-> <<LogText("result", data.v[1])>>, throws |-> FALSE]
    ELSE [lines |-> <<LogText("raw", data)>>, throws |-> FALSE]

\* lines 87-95: rendering after a successful retry
renderRetry(data) ==
    IF isArray(data) /\ Len(data.v) > 0 /\ isArray(data.v[1])
    THEN forEachItem(data.v[1].v, 1)
    ELSE [lines |-> <<>>, throws |-> FALSE]

----------------------------------------------------------------------------
(* analyzeSentiment, lines 43-103.  Each operator gives the state in which  *)
(* the program next suspends: [pc, idx, inflight, trace, outcome].          *)

\* analyzeSentiment returned to main (line 146 or 161)
Returned(tr, how) ==
    [pc |-> "returned", idx |-> 0, inflight |-> {}, trace |-> tr,
     outcome |-> how]

\* an error left analyzeSentiment; main rejects and line 165 logs it
Thrown(tr) ==
    [pc |-> "done", idx |-> 0, inflight |-> {},
     trace |-> tr \o <<Log("uncaught", 0)>>, outcome |-> "threw"]

IssueCallFanOut(i, tr) ==
    [pc |-> "call", idx |-> i,
     inflight |-> {Req("infer", j, FALSE) : j \in i..Len(MODELS)},
     trace |-> tr \o <<Log("trying", i), Req("infer", i, FALSE)>>,
     outcome |-> "running"]
\* lines 48-50: start of the loop body for candidate i, up to the await
IssueCall(i, tr) ==
    [pc |-> "call", idx |-> i, inflight |-> {Req("infer", i, FALSE)},
     trace |-> tr \o <<Log("trying", i), Req("infer", i, FALSE)>>,
     outcome |-> "running"]

ExhaustedExits(tr) ==
    [pc |-> "done", idx |-> 0, inflight |-> {},
     trace |-> tr \o <<Log("all_failed", 0)>>, outcome |-> "exhausted"]
\* lines 102-103: the loop ran out of candidates
Exhausted(tr) == Returned(tr \o <<Log("all_failed", 0)>>, "exhausted")

NextCandidateSkips(i, tr) ==
    IF i + 1 < Len(MODELS) THEN IssueCall(i + 2, tr) ELSE Exhausted(tr)
\* line 47: the for-of loop moves to the next candidate or ends
NextCandidate(i, tr) ==
    IF i < Len(MODELS) THEN IssueCall(i + 1, tr) ELSE Exhausted(tr)

SucceededNoReturn(i, r, tr) ==
    IF r.throws THEN Thrown(tr \o r.lines) ELSE NextCandidate(i, tr \o r.lines)
\* lines 73 and 96: the payload r was rendered; return, unless it threw
Succeeded(i, r, tr) ==
    IF r.throws THEN Thrown(tr \o r.lines) ELSE Returned(tr \o r.lines, "success")

neverRetry(error) == FALSE
\* line 78
shouldRetry(error) == includes(error, S503)

\* lines 52-80: the first call to candidate i settled with result
OnResult(i, result, tr) ==
    IF result.success
    THEN Succeeded(i, render(result.data),
                   tr \o <<Log("success", i), LogText("header", text)>>)
    ELSE IF shouldRetry(result.error)
         THEN [pc |-> "sleep", idx |-> i, inflight |-> {},
               trace |-> tr \o <<Log("failed", i), Log("loading", i)>>,
               outcome |-> "running"]
         ELSE NextCandidate(i, tr \o <<Log("failed", i)>>)

\* line 82: the 10 second timer fired; the retry is issued
IssueRetry(i, tr) ==
    [pc |-> "retry", idx |-> i, inflight |-> {Req("infer", i, TRUE)},
     trace |-> tr \o <<Req("infer", i, TRUE)>>, outcome |-> "running"]

OnRetryResultRetriesAgain(i, retryResult, tr) ==
    IF retryResult.success
    THEN Succeeded(i, renderRetry(retryResult.data),
                   tr \o <<Log("retry_success", i), LogText("header", text)>>)
    ELSE IF shouldRetry(retryResult.error)
         THEN [pc |-> "sleep", idx |-> i, inflight |-> {},
               trace |-> tr \o <<Log("loading", i)>>, outcome |-> "running"]
         ELSE NextCandidate(i, tr)
\* lines 83-99: the retry to candidate i settled with retryResult
OnRetryResult(i, retryResult, tr) ==
    IF retryResult.success
    THEN Succeeded(i, renderRetry(retryResult.data),
                   tr \o <<Log("retry_success", i), LogText("header", text)>>)
    ELSE NextCandidate(i, tr)

\* lines 44-50: entry of analyzeSentiment up to its first await
analyzeSentiment(tr) == IssueCall(1, tr \o <<Log("analyzing", 0)>>)

----------------------------------------------------------------------------
(* validateToken, lines 105-123 *)

validateTokenBlocking(resp) ==
    IF resp.kind = "ok" /\ resp.data.t \notin {"null", "undefined"}
    THEN [ret |-> JBool(TRUE), logs |-> <<Log("token_valid", 0)>>]
    ELSE [ret |-> JBool(FALSE), logs |-> <<Log("validation_failed", 0)>>]
\* the value returned and the lines printed, given the outcome of axios.get;
\* reading response.data.name of a null body throws inside the try block
validateToken(resp) ==
    IF resp.kind = "ok" /\ resp.data.t \notin {"null", "undefined"}
    THEN [ret |-> JBool(TRUE), logs |-> <<Log("token_valid", 0)>>]
    ELSE [ret |-> JBool(TRUE),
          logs |-> <<Log("validation_failed", 0),
                     IF resp.kind = "http" THEN Log("status_data", 0)
                                           ELSE Log("error_message", 0),
                     Log("proceeding", 0)>>]

----------------------------------------------------------------------------
(* main, lines 125-163, and the settling of its awaits *)

Apply(r) ==
    /\ pc' = r.pc
    /\ idx' = r.idx
    /\ inflight' = r.inflight
    /\ trace' = r.trace
    /\ outcome' = r.outcome

Init ==
    /\ TOKEN \in Tokens
    /\ pc = "start"
    /\ idx = 0
    /\ text = <<>>
    /\ inflight = {}
    /\ trace = <<>>
    /\ whoamiCalls = 0
    /\ isValidToken = Undefined
    /\ outcome = "none"

\* lines 126-135: no token, main reports it and returns
MainNoToken ==
    /\ pc = "start"
    /\ Falsy(TOKEN)
    /\ pc' = "done"
    /\ trace' = trace \o <<Log("banner", 0), Log("config_error", 0)>>
    /\ UNCHANGED <<TOKEN, idx, text, inflight, whoamiCalls, isValidToken, outcome>>

\* lines 126-139 and 107: main calls validateToken, which issues axios.get
MainValidate ==
    /\ pc = "start"
    /\ ~Falsy(TOKEN)
    /\ pc' = "whoami"
    /\ inflight' = {Req("whoami", 0, FALSE)}
    /\ whoamiCalls' = whoamiCalls + 1
    /\ trace' = trace \o <<Log("banner", 0), Log("validating", 0),
                           Req("whoami", 0, FALSE)>>
    /\ UNCHANGED <<TOKEN, idx, text, isValidToken, outcome>>

WhoamiSettlesSkipsTest(resp) ==
    /\ pc = "whoami"
    /\ LET v  == validateToken(resp)
           tr == trace \o <<Resp(resp)>> \o v.logs
       IN  /\ isValidToken' = v.ret
           /\ text' = text
           /\ IF Falsy(v.ret)
              THEN Apply([pc |-> "done", idx |-> 0, inflight |-> {},
                          trace |-> tr, outcome |-> "none"])
              ELSE Apply(Returned(tr, "none"))
    /\ UNCHANGED <<TOKEN, whoamiCalls>>
\* lines 108-123 and 139-146: axios.get settles, validateToken returns, main
\* tests the value and starts the analysis of the test sentence
WhoamiSettles(resp) ==
    /\ pc = "whoami"
    /\ LET v  == validateToken(resp)
           tr == trace \o <<Resp(resp)>> \o v.logs
       IN  /\ isValidToken' = v.ret
           /\ IF Falsy(v.ret)
              THEN /\ Apply([pc |-> "done", idx |-> 0, inflight |-> {},
                             trace |-> tr, outcome |-> "none"])
                   /\ text' = text
              ELSE /\ text' = TestSentence
                   /\ Apply(analyzeSentiment(tr \o <<Log("testing", 0)>>))
    /\ UNCHANGED <<TOKEN, whoamiCalls>>

\* lines 50-99: the first call to the current candidate settles
CallSettles(resp) ==
    /\ pc = "call"
    /\ Apply(OnResult(idx, testModel(MODELS[idx], resp), trace \o <<Resp(resp)>>))
    /\ UNCHANGED <<TOKEN, text, whoamiCalls, isValidToken>>

\* lines 80-82: the 10 second delay ends and the retry is issued
TimerFires ==
    /\ pc = "sleep"
    /\ Apply(IssueRetry(idx, trace))
    /\ UNCHANGED <<TOKEN, text, whoamiCalls, isValidToken>>

\* lines 82-99: the retry settles
RetrySettles(resp) ==
    /\ pc = "retry"
    /\ Apply(OnRetryResult(idx, testModel(MODELS[idx], resp), trace \o <<Resp(resp)>>))
    /\ UNCHANGED <<TOKEN, text, whoamiCalls, isValidToken>>

\* lines 148-149: back in the loop, main calls readline.question and blocks
MainPrompts ==
    /\ pc = "returned"
    /\ pc' = "prompt"
    /\ trace' = <<Prompt>>
    /\ UNCHANGED <<TOKEN, idx, text, inflight, whoamiCalls, isValidToken, outcome>>

\* line 151
IsTerminate(line) == toLowerCase(line) = SQuit \/ toLowerCase(line) = SExit

\* line 156
IsBlank(line) == trim(line) = <<>>

\* lines 149-154: the line read is quit or exit
ReadQuit(line) ==
    /\ pc = "prompt"
    /\ IsTerminate(line)
    /\ pc' = "done"
    /\ trace' = <<Read(line), Log("goodbye", 0)>>
    /\ UNCHANGED <<TOKEN, idx, text, inflight, whoamiCalls, isValidToken, outcome>>

\* lines 149-159: the line read is blank
ReadBlank(line) ==
    /\ pc = "prompt"
    /\ ~IsTerminate(line)
    /\ IsBlank(line)
    /\ pc' = "prompt"
    /\ trace' = <<Read(line), Log("invalid", 0), Prompt>>
    /\ UNCHANGED <<TOKEN, idx, text, inflight, whoamiCalls, isValidToken, outcome>>

\* lines 149-161: any other line is analysed
ReadText(line) ==
    /\ pc = "prompt"
    /\ ~IsTerminate(line)
    /\ ~IsBlank(line)
    /\ text' = line
    /\ Apply(analyzeSentiment(<<Read(line)>>))
    /\ UNCHANGED <<TOKEN, whoamiCalls, isValidToken>>

Next ==
    \/ MainNoToken
    \/ MainValidate
    \/ \E resp \in WhoamiResponses : WhoamiSettles(resp)
    \/ \E resp \in InferResponses : CallSettles(resp)
    \/ TimerFires
    \/ \E resp \in InferResponses : RetrySettles(resp)
    \/ MainPrompts
    \/ \E line \in Lines : ReadQuit(line)
    \/ \E line \in Lines : ReadBlank(line)
    \/ \E line \in Lines : ReadText(line)

Spec == Init /\ [][Next]_vars

\* every HTTP call completes (response, error or the 30 second timeout of
\* line 28) and the timer of line 80 fires
FairSpec ==
    /\ Spec
    /\ WF_vars(\E resp \in InferResponses : CallSettles(resp))
    /\ WF_vars(TimerFires)
    /\ WF_vars(\E resp \in InferResponses : RetrySettles(resp))

----------------------------------------------------------------------------
(* Observations on the trace *)

\* positions of the inference requests (first calls and retries)
InferRequests ==
    {k \in DOMAIN trace : trace[k].ev = "request" /\ trace[k].kind = "infer"}

\* positions of the first call and of the retries to candidate i
FirstCalls(i) == {k \in InferRequests : trace[k].m = i /\ ~trace[k].retry}
RetryCalls(i) == {k \in InferRequests : trace[k].m = i /\ trace[k].retry}

\* the request at position k has settled: its response is the next event
Settled(k) == k < Len(trace) /\ trace[k + 1].ev = "response"

\* candidates whose first call has settled with status st (0: no response)
FirstFailedWith(i, st) ==
    \E k \in FirstCalls(i) : Settled(k) /\ trace[k + 1].status = st

\* the loop has left candidate i: a later candidate was called or the
\* analysis is over
MovedOn(i) ==
    \/ \E k \in InferRequests : trace[k].m > i
    \/ pc \notin {"call", "sleep", "retry"}

Logged(tag) == \E k \in DOMAIN trace : trace[k].ev = "log" /\ trace[k].tag = tag

Candidates == 1..Len(MODELS)

----------------------------------------------------------------------------
(* Claims *)

\* C1: within one analysis, once an inference call has returned 2xx no
\* further HTTP request is issued, to that candidate or to a later one.
ShortCircuit ==
    \A k \in InferRequests :
        (Settled(k) /\ trace[k + 1].status = 200)
        => /\ \A j \in (k + 1)..Len(trace) : trace[j].ev # "request"
           /\ inflight = {}

\* the first candidate answered its first call with 2xx and the analysis ended
ShortCircuitWitness ==
    /\ pc = "returned"
    /\ \E k \in FirstCalls(1) : Settled(k) /\ trace[k + 1].status = 200
    /\ Cardinality(InferRequests) = 1

\* C2: a candidate whose first call failed with status 503 gets exactly one
\* more call before the loop moves on, also when the retry fails with 503.
RetryOnceOn503 ==
    \A i \in Candidates :
        FirstFailedWith(i, 503)
        => /\ Cardinality(RetryCalls(i)) <= 1
           /\ Cardinality(FirstCalls(i)) = 1
           /\ MovedOn(i) => Cardinality(RetryCalls(i)) = 1

\* a candidate failed with 503 twice and the next candidate is being called
RetryOnceOn503Witness ==
    \E i \in Candidates :
        /\ FirstFailedWith(i, 503)
        /\ \E k \in RetryCalls(i) : Settled(k) /\ trace[k + 1].status = 503
        /\ pc = "call" /\ idx = i + 1

\* C3: a candidate whose first call failed with anything but status 503
\* (another status, or no response at all) is not retried: no delay is
\* waited for it and no second call is made to it.
NoRetryUnless503 ==
    \A i \in Candidates :
        (\E st \in {0} \cup (ErrorStatuses \ {503}) : FirstFailedWith(i, st))
        => /\ RetryCalls(i) = {}
           /\ ~(pc = "sleep" /\ idx = i)

\* the analysis ended by exhaustion: every candidate was called and failed
EndedExhausted == pc = "returned" /\ outcome = "exhausted"

\* C4: when every candidate fails the analysis ends with the exhaustion
\* message, and it made (number of candidates) + (number of candidates whose
\* first call returned status 503) HTTP calls.
ExhaustionCallCount ==
    /\ (pc = "returned" /\ outcome # "success") => Logged("all_failed")
    /\ EndedExhausted
       => Cardinality(InferRequests)
          = Len(MODELS) + Cardinality({i \in Candidates : FirstFailedWith(i, 503)})

\* C5: rendering a successful payload never raises; no error leaves
\* analyzeSentiment.
RenderNeverThrows == outcome # "threw"

TokenMissing == TOKEN = Undefined \/ TOKEN = JStr(<<>>)

\* C6: with the token unset or empty no HTTP request is ever issued, the
\* configuration error is reported, and the prompt loop is never entered.
MissingTokenNoCall ==
    TokenMissing
    => /\ whoamiCalls = 0
       /\ inflight = {}
       /\ \A k \in DOMAIN trace : trace[k].ev \notin {"request", "prompt", "read"}
       /\ pc \in {"start", "done"}
       /\ outcome = "none"
       /\ pc = "done" => Logged("config_error")

\* main returned on an empty token after reporting it
MissingTokenWitness ==
    TOKEN = JStr(<<>>) /\ pc = "done" /\ Logged("config_error")

\* the line read at the last prompt, when one was read
LineRead == Len(trace) > 0 /\ trace[1].ev = "read"

OnlyWhiteSpace(line) == \A k \in DOMAIN line : line[k] \in {" ", "\t"}

\* C7: an empty or whitespace-only line triggers no HTTP request; the next
\* prompt follows directly.
BlankLineNoCall ==
    (LineRead /\ OnlyWhiteSpace(trace[1].line))
    => /\ inflight = {}
       /\ InferRequests = {}
       /\ pc = "prompt"
       /\ trace[Len(trace)] = Prompt
       /\ outcome # "running"

\* a line of blanks and a tab was read and the program prompts again
BlankLineWitness ==
    LineRead /\ trace[1].line = <<" ", "\t", " ">> /\ pc = "prompt"

\* quit or exit in any letter case
IsQuitWord(line) ==
    /\ Len(line) = 4
    /\ \/ /\ line[1] \in {"q", "Q"} /\ line[2] \in {"u", "U"}
          /\ line[3] \in {"i", "I"} /\ line[4] \in {"t", "T"}
       \/ /\ line[1] \in {"e", "E"} /\ line[2] \in {"x", "X"}
          /\ line[3] \in {"i", "I"} /\ line[4] \in {"t", "T"}

QuitRead == LineRead /\ IsQuitWord(trace[1].line)

\* C8: after quit or exit, in any letter case, the loop is over: no prompt
\* and no HTTP request follows, and the program takes no further step.
QuitTerminates ==
    /\ [](QuitRead
          => /\ pc = "done"
             /\ inflight = {}
             /\ \A k \in DOMAIN trace : trace[k].ev \notin {"request", "prompt"})
    /\ [][QuitRead => UNCHANGED vars]_vars

\* a mixed-case quit was read and main has left the loop
QuitWitness ==
    LineRead /\ trace[1].line = <<"q", "u", "I", "t">> /\ pc = "done"

WhoamiRequests ==
    {k \in DOMAIN trace : trace[k].ev = "request" /\ trace[k].kind = "whoami"}

\* C9: validateToken returns true on every path, so with a token the run
\* goes from the preflight to the inference calls; exactly one identity
\* request is issued and it comes before every inference call.
PreflightNeverBlocks ==
    /\ isValidToken \in {Undefined, JBool(TRUE)}
    /\ whoamiCalls <= 1
    /\ (~TokenMissing /\ pc # "start") => whoamiCalls = 1
    /\ (pc \in {"call", "sleep", "retry", "returned", "prompt"} \/ InferRequests # {})
       => (whoamiCalls = 1 /\ isValidToken = JBool(TRUE))
    /\ \A w \in WhoamiRequests :
          /\ \A k \in InferRequests : w < k
          /\ Settled(w) => (pc # "done" \/ InferRequests # {})
    /\ Cardinality(inflight) <= 1

\* the identity request failed (a status, or no response) and the first
\* inference call was issued all the same
PreflightWitness ==
    /\ \E w \in WhoamiRequests : Settled(w) /\ trace[w + 1].status \in {0, 401}
    /\ InferRequests # {}

\* C10: exhaustion does not end the loop: the failure message is printed,
\* analyzeSentiment returns, and main issues the next prompt.
ExhaustionKeepsLoop ==
    /\ [](Logged("all_failed")
          => /\ pc = "returned"
             /\ outcome = "exhausted"
             /\ trace[Len(trace)] = Log("all_failed", 0))
    /\ [][(pc = "returned" /\ outcome = "exhausted")
          => (pc' = "prompt" /\ trace' = <<Prompt>> /\ outcome' = outcome)]_vars
    /\ []((outcome = "exhausted" /\ pc = "done") => QuitRead)

\* the program is at the prompt after an analysis in which every candidate
\* failed
ExhaustionWitness == outcome = "exhausted" /\ pc = "prompt"

\* the analysis in the trace ended after a 2xx response to the request at k
SucceededAt(k) ==
    /\ k \in InferRequests
    /\ Settled(k)
    /\ trace[k + 1].status = 200
    /\ pc \in {"returned", "done"}

\* what was printed after the "Sentiment Result for" header
Rendered ==
    LET h == CHOOSE k \in DOMAIN trace :
                 trace[k].ev = "log" /\ trace[k].tag = "header"
    IN  SubSeq(trace, h + 1, Len(trace))

\* C11: a success on the retry is rendered as a success on the first call
\* is: for the same payload the same result lines are printed.
RetryRendersLikeFirst ==
    \A k \in InferRequests :
        (SucceededAt(k) /\ trace[k].retry /\ outcome = "success")
        => Rendered = render(trace[k + 1].data).lines

\* C12: every inference call is followed, before the next call or the final
\* message, by a printed report of its outcome for that candidate.
EveryCallReported ==
    \A k \in InferRequests :
        Settled(k)
        => /\ k + 2 <= Len(trace)
           /\ trace[k + 2].ev = "log"
           /\ trace[k + 2].m = trace[k].m
           /\ trace[k + 2].tag \in {"success", "retry_success", "failed"}

\* C13: candidates are called in list order: the first call goes to the first
\* candidate, each further call is the retry of the candidate just called or
\* the first call of the next one, and it is issued only after the call
\* before it has failed.
StrictListOrder ==
    LET R == InferRequests
    IN  /\ \A k \in R :
              LET before == {j \in R : j < k}
              IN  IF before = {}
                  THEN trace[k].m = 1 /\ ~trace[k].retry
                  ELSE LET p == CHOOSE j \in before : \A i \in before : i <= j
                       IN  /\ Settled(p)
                           /\ trace[p + 1].status # 200
                           /\ \/ /\ trace[k].m = trace[p].m
                                 /\ trace[k].retry /\ ~trace[p].retry
                              \/ /\ trace[k].m = trace[p].m + 1
                                 /\ ~trace[k].retry
        /\ \A k \in R : trace[k].m \in Candidates
        /\ pc \in {"call", "retry"}
           => /\ R # {}
              /\ \A k \in R : trace[k].m <= idx
              /\ \E k \in R : trace[k].m = idx /\ ~Settled(k)

\* the last candidate is being called after the three before it failed, one
\* of them after a retry
StrictListOrderWitness ==
    /\ pc = "call"
    /\ idx = Len(MODELS)
    /\ \A i \in 1..(Len(MODELS) - 1) : FirstCalls(i) # {}
    /\ \E i \in 1..(Len(MODELS) - 1) : RetryCalls(i) # {}

\* requests of the trace that have not settled
Unsettled ==
    {k \in DOMAIN trace : trace[k].ev = "request" /\ ~Settled(k)}

\* C14: at most one HTTP request is outstanding at any time, and none while
\* the 10 second delay is waited or a line is being read.
OneRequestAtATime ==
    /\ Cardinality(inflight) <= 1
    /\ pc \in {"sleep", "prompt", "start", "returned", "done"} => inflight = {}
    /\ pc \in {"whoami", "call", "retry"} => Cardinality(inflight) = 1
    /\ inflight = {trace[k] : k \in Unsettled}
    /\ \A r \in inflight :
          /\ r.kind = "whoami" <=> pc = "whoami"
          /\ r.kind = "infer" => (r.m = idx /\ (r.retry <=> pc = "retry"))

\* the retry is the one outstanding request, after the delay
OneRequestWitness ==
    /\ pc = "retry"
    /\ inflight = {Req("infer", idx, TRUE)}
    /\ Logged("loading")

\* an object exposing a string label and a numeric score
IsLabelScore(x) ==
    /\ x.t = "obj"
    /\ GetField(x, KLabel).t = "str"
    /\ GetField(x, KScore).t = "num"

\* a list of such objects
IsLabelScoreList(x) ==
    x.t = "arr" /\ \A n \in DOMAIN x.v : IsLabelScore(x.v[n])

\* C15: after a successful first call the label/percentage lines are printed
\* only for a non-empty list whose first element is a list of label/score
\* objects; another non-empty list is printed as its serialized first
\* element, and any other payload as the serialized payload.
DispatchByShape ==
    \A k \in InferRequests :
        (SucceededAt(k) /\ ~trace[k].retry)
        => LET d == trace[k + 1].data
           IN  IF d.t = "arr" /\ Len(d.v) > 0 /\ IsLabelScoreList(d.v[1])
               THEN /\ Len(Rendered) = Len(d.v[1].v)
                    /\ \A n \in DOMAIN Rendered : Rendered[n].tag = "line"
               ELSE IF d.t = "arr" /\ Len(d.v) > 0
               THEN Rendered = <<LogText("result", d.v[1])>>
               ELSE Rendered = <<LogText("raw", d)>>

RECURSIVE WithoutUnderscores(_)
\* s with every underscore removed
WithoutUnderscores(s) ==
    IF s = <<>> THEN <<>>
    ELSE (IF Head(s) = "_" THEN <<>> ELSE <<Head(s)>>)
         \o WithoutUnderscores(Tail(s))

\* the label with the LABEL_ prefix and all underscores removed
StrippedLabel(s) ==
    WithoutUnderscores(
        IF Len(s) >= 6 /\ SubSeq(s, 1, 6) = <<"L","A","B","E","L","_">>
        THEN SubSeq(s, 7, Len(s)) ELSE s)

\* C16: in the label/percentage arm one line is printed per object, in order,
\* and the label shown is the original without the LABEL_ prefix and without
\* any underscore.
LabelsStripped ==
    \A k \in InferRequests :
        LET d == trace[k + 1].data
        IN  (/\ SucceededAt(k)
             /\ d.t = "arr" /\ Len(d.v) > 0 /\ IsLabelScoreList(d.v[1]))
            => /\ Len(Rendered) = Len(d.v[1].v)
               /\ \A n \in DOMAIN Rendered :
                     /\ Rendered[n].tag = "line"
                     /\ Rendered[n].txt
                        = StrippedLabel(GetField(d.v[1].v[n], KLabel).v)

\* C17: an analysis ends, by its first success or by exhaustion, after at
\* least one and at most two calls per candidate, and the loop never goes
\* back to an earlier candidate.
AnalysisTerminates ==
    /\ [](/\ Cardinality(InferRequests) <= 2 * Len(MODELS)
          /\ \A i \in Candidates :
                Cardinality(FirstCalls(i)) <= 1 /\ Cardinality(RetryCalls(i)) <= 1
          /\ (pc = "returned" \/ outcome = "threw")
             => /\ Cardinality(InferRequests) >= 1
                /\ \/ outcome = "exhausted"
                      /\ \A i \in Candidates : FirstCalls(i) # {}
                   \/ outcome \in {"success", "threw"}
                      /\ \E k \in InferRequests :
                            /\ SucceededAt(k)
                            /\ \A j \in InferRequests : j <= k)
    /\ [][idx' >= idx \/ pc' \in {"returned", "done"}]_vars
    /\ (outcome = "running") ~> (outcome # "running")

\* an analysis ended by exhaustion after two calls to every candidate
AnalysisTerminatesWitness ==
    /\ pc = "returned"
    /\ outcome = "exhausted"
    /\ Cardinality(InferRequests) = 2 * Len(MODELS)

ILoveThis == <<"I", " ", "l", "o", "v", "e", " ", "t", "h", "i", "s", "!">>

\* C18: with a token, the preflight is followed by one analysis of the
\* sentence "I love this!"; no prompt is issued before that analysis has
\* ended, and no run with a token ends without inference calls, whatever
\* the first line entered is.
TestAnalysisFirst ==
    /\ [](pc \in {"returned", "prompt"} => outcome \in {"success", "exhausted"})
    /\ []((~TokenMissing /\ pc = "done") => outcome # "none")
    /\ []((WhoamiRequests # {} /\ pc \notin {"start", "whoami"})
          => /\ text = ILoveThis
             /\ \E k \in FirstCalls(1) : \A w \in WhoamiRequests : w < k
             /\ \A k \in DOMAIN trace : trace[k].ev \notin {"prompt", "read"})
    /\ [][pc = "whoami"
          => /\ pc' = "call" /\ idx' = 1 /\ outcome' = "running"
             /\ text' = ILoveThis]_vars
    /\ [][(outcome = "none" /\ outcome' # "none") => pc = "whoami"]_vars

\* quit was the first line entered, and the test sentence had been analysed
TestAnalysisFirstWitness ==
    /\ QuitRead
    /\ pc = "done"
    /\ text = ILoveThis
    /\ outcome \in {"success", "exhausted"}

\* C19: only a whole line equal to quit or exit, in any letter case and
\* untrimmed, ends the loop; every other line that is not blank, such as
\* " quit " or "quit now", is analysed as text, and the loop then prompts
\* again.
OnlyWholeLineQuits ==
    /\ [](LineRead
          => /\ pc = "done" <=> IsQuitWord(trace[1].line)
             /\ (~IsQuitWord(trace[1].line) /\ ~OnlyWhiteSpace(trace[1].line))
                => (text = trace[1].line /\ FirstCalls(1) # {}))
    /\ [][(LineRead /\ pc = "returned") => pc' = "prompt"]_vars

====
